---- MODULE Spec2Model ----
(***************************************************************************)
(* Verification model of the nockchain mining engine:                      *)
(*   - the candidate coordinator of mining_optimized.rs                    *)
(*     (create_optimized_mining_driver and its helpers);                   *)
(*   - the worker pool of mining_epyc7k62_dual.rs (DualSocketMiner);       *)
(*   - the pure functions: worker placement of the pools and the field     *)
(*     arithmetic of base_optimized.rs.                                    *)
(* Each part has its own specification; the variables of the other parts   *)
(* stay at their initial values.                                           *)
(***************************************************************************)
EXTENDS Integers, Sequences, FiniteSets, Bags, TLC

(***************************************************************************)
(* Bounds of the model.                                                    *)
(***************************************************************************)
\* Number of mining workers the coordinator starts.  The code starts
\* OPTIMAL_MINING_THREADS (188) of them; the model keeps the loop and
\* scales the count down.
NumMiningThreads == 2
\* Number of distinct candidates the host node can deliver.
MaxCandidates == 2
\* Cap on the 'mined' pokes the host node receives.
MaxMined == 2
\* Cap on the rounds in which the driver creates its serf threads.
MaxSpawnRounds == 2
\* Largest threads_per_socket a pool configuration asks for.
MaxThreadsPerSocket == 1
\* Cap on the worker threads one pool spawns over all its start_mining calls.
MaxWorkers == 4
\* Largest worker index, and largest threads_per_socket, whose placement is
\* computed: one more than the 96 CPUs of a socket, so that indices wrap.
MaxThreadId == 97
\* Largest length of the vectors given to the batch operations, besides the
\* lengths of one and of two full 512-bit vectors.
MaxLen == 9
\* Largest max_elements a BatchProcessor is created with.
MaxElements == 9
\* Largest hash rate a worker reports.
MaxRate == 6
\* Number of workers that can be inside update_socket_hash_rate at once.
NumUpdaters == 2
\* Cap on the imbalance reports of the balancer.
MaxMigrations == 2
\* Cap on the restart checks a worker runs, that is on iteration_count.
MaxChecks == 1
\* A worker reads an elapsed time within this many seconds of the
\* candidate update interval.
MaxClockSkew == 1

(***************************************************************************)
(* Program constants.                                                      *)
(***************************************************************************)
EPYC_7K62_THREADS_PER_SOCKET == 96
TOTAL_SOCKETS == 2
TOTAL_THREADS == EPYC_7K62_THREADS_PER_SOCKET * TOTAL_SOCKETS
\* the workers of the pool: TOTAL_THREADS less 4 threads kept for the system
MINING_THREADS == 188
\* mining_epyc9b14.rs: cores of the EPYC 9B14, cores of a CCD, CCDs
EPYC_9B14_CORES == 32
ZEN4_CCD_SIZE == 8
EPYC_9B14_CCDS == 4
\* mining_optimized.rs: cores of a NUMA node of the EPYC 9654
BATCH_SIZE_PER_NUMA_NODE == 24
\* base_optimized.rs: elements of a 512-bit vector
SIMD_WIDTH == 8
\* Half the width of a machine word.  The code works on 64-bit words, with
\* the prime 2^64 - 2^32 + 1 and the multiplier 0xFFFFFFFF = 2^32 - 1; the
\* model keeps every operation and the shape 2^(2h) - 2^h + 1 of the prime
\* at h = 4, where all words and all pairs of field elements are enumerated.
HalfBits == 4
\* iteration_count % 100000 == 0: the period of the restart check
RestartCheckPeriod == 100000
\* Duration::from_secs(300), the default candidate_update_interval
DefaultUpdateInterval == 300

(***************************************************************************)
(* Coordinator state (locals of the driver future) and its environment.    *)
(***************************************************************************)
VARIABLES
    driver_pc,          \* position of the driver future
    effect,             \* the %mine effect being handled: <<>> or <<candidate>>
    mining_data,        \* Mutex<Option<OptimizedMiningData>>: <<>> or <<data>>
    mining_attempts,    \* JoinSet of attempts: tasks spawned and not yet joined
    cancel_tokens,      \* Vec<NockCancelToken>: the serf each token belongs to
    mining_result,      \* the result join_next returned, while it is handled
    mined_pokes         \* number of 'mined' pokes the host node has received

(***************************************************************************)
(* Pool state (DualSocketMiner), its threads and its caller.               *)
(***************************************************************************)
VARIABLES
    cpu_count,          \* num_cpus::get()
    config,             \* DualSocketMiningConfig
    should_stop,        \* Arc<AtomicBool>
    mining_handles,     \* Vec<JoinHandle<()>>: the threads the handles belong to
    threads,            \* the worker threads spawned so far
    threads_active,     \* stats.threads_active
    monitor_threads,    \* live threads of start_dual_socket_monitor
    balancer_threads,   \* live threads of start_cross_socket_balancer
    miner_pc,           \* what the owner of the miner is doing with it
    start_result,       \* what the last start_mining call returned
    host                \* whether the host lets a thread be pinned to a CPU,
                        \* bound to a NUMA node, and the memory policy be set

(***************************************************************************)
(* Telemetry of the pool (DualSocketMiningStats, but for threads_active)   *)
(* and the threads that read and write it.                                 *)
(***************************************************************************)
VARIABLES
    stats,              \* the atomic counters of DualSocketMiningStats
    balancer,           \* the thread of start_cross_socket_balancer
    updaters            \* bag of the calls of update_socket_hash_rate in progress

(***************************************************************************)
(* The last call of a pure function: its name, arguments and outcome.      *)
(***************************************************************************)
VARIABLES
    calc                \* [fn, args, out]

driver_vars == <<driver_pc, effect, mining_data, mining_attempts, cancel_tokens,
                 mining_result, mined_pokes>>

pool_vars == <<cpu_count, config, should_stop, mining_handles, threads,
               threads_active, monitor_threads, balancer_threads, miner_pc,
               start_result, host>>

calc_vars == <<calc>>

stats_vars == <<stats, balancer, updaters>>

vars == <<driver_pc, effect, mining_data, mining_attempts, cancel_tokens,
          mining_result, mined_pokes,
          cpu_count, config, should_stop, mining_handles, threads,
          threads_active, monitor_threads, balancer_threads, miner_pc,
          start_result, host, calc, stats, balancer, updaters>>

\* No call of a pure function is in progress.
CalcInit == calc = [fn |-> "none", args |-> <<>>, out |-> <<>>]

\* A host on which every pinning call succeeds.
HostInit == host = [affinity_ok |-> TRUE, numa_ok |-> TRUE, mempolicy_ok |-> TRUE]

\* DualSocketMiningStats::new.
DualSocketMiningStats_new ==
    [hash_rate_socket0 |-> 0,
     hash_rate_socket1 |-> 0,
     total_hash_rate |-> 0,
     solutions_found |-> 0,
     numa_balance_ratio |-> 100,
     cross_socket_migrations |-> 0,
     zen3_cache_hits |-> 0]

\* Fresh telemetry; the balancer sleeps and has reported nothing; no worker
\* is inside update_socket_hash_rate.
StatsInit ==
    /\ stats = DualSocketMiningStats_new
    /\ balancer = [pc |-> "sleep", socket0_rate |-> 0, flagged |-> FALSE]
    /\ updaters = [u \in {[pc |-> "idle", socket0_rate |-> 0, total |-> 0]}
                      |-> NumUpdaters]

\* The caller has taken the outcome of the call.
CalcReturn ==
    /\ calc.fn # "none"
    /\ calc' = [fn |-> "none", args |-> <<>>, out |-> <<>>]
    /\ UNCHANGED <<driver_pc, effect, mining_data, mining_attempts,
                   cancel_tokens, mining_result, mined_pokes,
                   cpu_count, config, should_stop, mining_handles, threads,
                   threads_active, monitor_threads, balancer_threads,
                   miner_pc, start_result, host, stats, balancer, updaters>>

WorkerIds == 0 .. (NumMiningThreads - 1)

\* The content of a %mine effect: [version commit target pow-len].
Candidate(k) ==
    [version |-> k, block_header |-> 10 + k, target |-> 20 + k, pow_len |-> 30 + k]

Candidates == { Candidate(k) : k \in 1 .. MaxCandidates }

\* What join_next returns for a finished attempt.
\*   "poke"        Ok, a cell whose head is the atom %poke: the attempt was cancelled
\*   "solution"    Ok, effect [%mine-result 0 hash poke]
\*   "nonsolution" Ok, effect [%mine-result r tail] with r # 0
\*   "other"       Ok, an effect whose head is not %mine-result
\*   "error"       a JoinError or an Err(CrownError)
ResultKinds == {"poke", "solution", "nonsolution", "other", "error"}

\* The %mine handler writing only the new header into an occupied slot.
OptimizedMiningData_in_place(c) ==
    IF mining_data = <<>>
    THEN [block_header |-> c.block_header,
          version |-> c.version,
          target |-> c.target,
          pow_len |-> c.pow_len,
          optimization_stats |-> 0]
    ELSE [mining_data[1] EXCEPT !.block_header = c.block_header]

\* struct OptimizedMiningData, as the %mine handler builds it.
OptimizedMiningData(c) ==
    [block_header |-> c.block_header,
     version |-> c.version,
     target |-> c.target,
     pow_len |-> c.pow_len,
     optimization_stats |-> 0]

\* generate_optimized_nonce: eight random field elements mixed from the
\* thread id and the entropy; the model keeps where a nonce comes from.
generate_optimized_nonce(thread_id, base_entropy) ==
    [origin |-> "generated"]

\* create_optimized_poke: [version header nonce target pow_len].
create_optimized_poke(data, nonce) ==
    [version |-> data.version,
     header |-> data.block_header,
     nonce |-> nonce,
     target |-> data.target,
     pow_len |-> data.pow_len]

\* start_optimized_mining_attempt sending again the poke the serf has just
\* answered, with the new nonce, instead of building one from mining_data.
start_optimized_mining_attempt_resend(serf, data, nonce, id) ==
    LET n == IF nonce = <<>>
             THEN generate_optimized_nonce(id, data[1].optimization_stats)
             ELSE nonce[1]
    IN  [serf |-> serf,
         id |-> id,
         poke |-> IF mining_result = <<>>
                  THEN create_optimized_poke(data[1], n)
                  ELSE [mining_result[1].poke EXCEPT !.nonce = n],
         status |-> "running"]

\* start_optimized_mining_attempt: the task it spawns on the JoinSet.  nonce
\* is an Option: <<>> or <<n>>.  The caller has checked that data is present.
start_optimized_mining_attempt(serf, data, nonce, id) ==
    LET n == IF nonce = <<>>
             THEN generate_optimized_nonce(id, data[1].optimization_stats)
             ELSE nonce[1]
    IN  [serf |-> serf,
         id |-> id,
         poke |-> create_optimized_poke(data[1], n),
         status |-> "running"]

DriverInit ==
    /\ driver_pc = "init"
    /\ effect = <<>>
    /\ mining_data = <<>>
    /\ mining_attempts = {}
    /\ cancel_tokens = <<>>
    /\ mining_result = <<>>
    /\ mined_pokes = 0

\* The driver up to its loop: it returns when no mining key is configured
\* or when mining is off.
Setup ==
    /\ driver_pc = "init"
    /\ \E has_config \in BOOLEAN, mine \in BOOLEAN :
          driver_pc' = IF has_config /\ mine THEN "select" ELSE "returned"
    /\ UNCHANGED <<pool_vars, calc_vars, stats_vars>>
    /\ UNCHANGED <<effect, mining_data, mining_attempts, cancel_tokens,
                   mining_result, mined_pokes>>

\* mining_attempts.join_next() returns the attempt a, finished with a result
\* of the given kind.  Only a cancelled serf answers with %poke; a cancelled
\* serf may still finish its hash step and answer with anything else.
JoinNext(a, kind) ==
    /\ driver_pc = "select"
    /\ a \in mining_attempts
    /\ kind \in ResultKinds
    /\ kind = "poke" => a.status = "cancelled"
    /\ kind = "solution" => mined_pokes < MaxMined
    /\ mining_attempts' = mining_attempts \ {a}
    /\ mining_result' = <<[serf |-> a.serf, id |-> a.id, kind |-> kind, poke |-> a.poke]>>
    /\ driver_pc' = "handle"
    /\ UNCHANGED <<pool_vars, calc_vars, stats_vars>>
    /\ UNCHANGED <<effect, mining_data, cancel_tokens, mined_pokes>>

\* The join_next branch passing no nonce on after a non-solution, which
\* makes start_optimized_mining_attempt generate one.
NextNonce_generate_after_nonsolution(kind) ==
    CASE kind = "poke" -> <<>>
      [] kind = "solution" -> <<[origin |-> "hash"]>>
      [] kind = "nonsolution" -> <<>>

\* The nonce the join_next branch passes on for a result of the given kind:
\* None after a cancellation, the hash of a solution, the tail of a
\* non-solution.
NextNonce(kind) ==
    CASE kind = "poke" -> <<>>
      [] kind = "solution" -> <<[origin |-> "hash"]>>
      [] kind = "nonsolution" -> <<[origin |-> "tail"]>>

\* The join_next branch poking the host node for every %mine-result.
MinedPokesFor_every_result(kind) ==
    IF kind \in {"solution", "nonsolution"} THEN 1 ELSE 0

\* 'mined' pokes the join_next branch sends to the host node for a result
\* of the given kind.
MinedPokesFor(kind) == IF kind = "solution" THEN 1 ELSE 0

\* The join_next branch leaving the worker idle once it has found a block.
Restarted_not_after_solution(r, data) ==
    IF r.kind \in {"other", "solution"}
    THEN {}
    ELSE {start_optimized_mining_attempt(r.serf, data, NextNonce(r.kind), r.id)}

\* The attempts the join_next branch starts for the result r.
Restarted(r, data) ==
    IF r.kind = "other"
    THEN {}
    ELSE {start_optimized_mining_attempt(r.serf, data, NextNonce(r.kind), r.id)}

\* The body of the join_next branch, for the result it took.
HandleResult ==
    /\ driver_pc = "handle"
    /\ LET r == mining_result[1] IN
       IF r.kind = "error"
       THEN \* an expect() panics: the driver future ends, its JoinSet is dropped
            /\ driver_pc' = "panicked"
            /\ mining_attempts' = {}
            /\ mined_pokes' = mined_pokes
       ELSE IF r.kind # "other" /\ mining_data = <<>>
       THEN \* "Mining data should already be initialized"
            /\ driver_pc' = "panicked"
            /\ mining_attempts' = {}
            /\ mined_pokes' = mined_pokes + MinedPokesFor(r.kind)
       ELSE /\ driver_pc' = "select"
            /\ mined_pokes' = mined_pokes + MinedPokesFor(r.kind)
            /\ mining_attempts' = mining_attempts \cup Restarted(r, mining_data)
    /\ mining_result' = <<>>
    /\ UNCHANGED <<pool_vars, calc_vars, stats_vars>>
    /\ UNCHANGED <<effect, mining_data, cancel_tokens>>

\* The next_effect branch: a %mine effect arrives and is parsed.
ReceiveMine(c) ==
    /\ driver_pc = "select"
    /\ c \in Candidates
    /\ mining_attempts = {} => Len(cancel_tokens) < MaxSpawnRounds * NumMiningThreads
    /\ effect' = <<c>>
    /\ driver_pc' = "publish"
    /\ UNCHANGED <<pool_vars, calc_vars, stats_vars>>
    /\ UNCHANGED <<mining_data, mining_attempts, cancel_tokens,
                   mining_result, mined_pokes>>

\* The %mine handler with the store into mining_data left out while attempts
\* are in flight (the slot is only filled when the workers are started).
Publish_only_when_idle ==
    /\ driver_pc = "publish"
    /\ mining_data' = IF mining_attempts = {}
                      THEN <<OptimizedMiningData(effect[1])>>
                      ELSE mining_data
    /\ driver_pc' = "dispatch"
    /\ UNCHANGED <<pool_vars, calc_vars, stats_vars>>
    /\ UNCHANGED <<effect, mining_attempts, cancel_tokens,
                   mining_result, mined_pokes>>

\* *(mining_data.lock().await) = Some(OptimizedMiningData {..})
Publish ==
    /\ driver_pc = "publish"
    /\ mining_data' = <<OptimizedMiningData(effect[1])>>
    /\ driver_pc' = "dispatch"
    /\ UNCHANGED <<pool_vars, calc_vars, stats_vars>>
    /\ UNCHANGED <<effect, mining_attempts, cancel_tokens,
                   mining_result, mined_pokes>>

\* The serfs created by one round of the start loop: serf i of the round is
\* the one cancel token number Len(cancel_tokens) + i + 1 belongs to.
RECURSIVE StartAll(_, _, _)
StartAll(i, tokens, data) ==
    IF i = NumMiningThreads THEN {}
    ELSE {start_optimized_mining_attempt(Len(tokens) + i + 1, data, <<>>, i)}
         \cup StartAll(i + 1, tokens, data)

\* The cancel loop stopping after the first token.
CancelAll_first_token(attempts, tokens) ==
    { IF a.status = "running" /\ tokens # <<>> /\ tokens[1] = a.serf
      THEN [a EXCEPT !.status = "cancelled"]
      ELSE a : a \in attempts }

\* token.cancel() for every token: the serf's running poke is interrupted.
CancelAll(attempts, tokens) ==
    { IF a.status = "running" /\ (\E t \in 1 .. Len(tokens) : tokens[t] = a.serf)
      THEN [a EXCEPT !.status = "cancelled"]
      ELSE a : a \in attempts }

\* The %mine handler leaving the running serfs alone.
Dispatch_without_cancel ==
    /\ driver_pc = "dispatch"
    /\ IF mining_attempts = {}
       THEN /\ mining_attempts' = StartAll(0, cancel_tokens, mining_data)
            /\ cancel_tokens' = cancel_tokens \o
                  [i \in 1 .. NumMiningThreads |-> Len(cancel_tokens) + i]
       ELSE /\ mining_attempts' = mining_attempts
            /\ cancel_tokens' = cancel_tokens
    /\ effect' = <<>>
    /\ driver_pc' = "select"
    /\ UNCHANGED <<pool_vars, calc_vars, stats_vars>>
    /\ UNCHANGED <<mining_data, mining_result, mined_pokes>>

\* The %mine handler emptying the candidate slot when it cancels the serfs.
Dispatch_clears_slot ==
    /\ driver_pc = "dispatch"
    /\ IF mining_attempts = {}
       THEN /\ mining_attempts' = StartAll(0, cancel_tokens, mining_data)
            /\ cancel_tokens' = cancel_tokens \o
                  [i \in 1 .. NumMiningThreads |-> Len(cancel_tokens) + i]
            /\ mining_data' = mining_data
       ELSE /\ mining_attempts' = CancelAll(mining_attempts, cancel_tokens)
            /\ cancel_tokens' = cancel_tokens
            /\ mining_data' = <<>>
    /\ effect' = <<>>
    /\ driver_pc' = "select"
    /\ UNCHANGED <<pool_vars, calc_vars, stats_vars>>
    /\ UNCHANGED <<mining_result, mined_pokes>>

\* The rest of the %mine handler: start the workers when the JoinSet is
\* empty, otherwise cancel every serf.
Dispatch ==
    /\ driver_pc = "dispatch"
    /\ IF mining_attempts = {}
       THEN /\ mining_attempts' = StartAll(0, cancel_tokens, mining_data)
            /\ cancel_tokens' = cancel_tokens \o
                  [i \in 1 .. NumMiningThreads |-> Len(cancel_tokens) + i]
       ELSE /\ mining_attempts' = CancelAll(mining_attempts, cancel_tokens)
            /\ cancel_tokens' = cancel_tokens
    /\ effect' = <<>>
    /\ driver_pc' = "select"
    /\ UNCHANGED <<pool_vars, calc_vars, stats_vars>>
    /\ UNCHANGED <<mining_data, mining_result, mined_pokes>>

DriverNext ==
    \/ Setup
    \/ \E a \in mining_attempts, kind \in ResultKinds : JoinNext(a, kind)
    \/ HandleResult
    \/ \E c \in Candidates : ReceiveMine(c)
    \/ Publish
    \/ Dispatch

(***************************************************************************)
(* The worker pool of mining_epyc7k62_dual.rs.                             *)
(***************************************************************************)

\* DualSocketMiningConfig::default(), with the fields the pool's life cycle
\* reads.
DefaultConfig ==
    [candidate_update_interval |-> DefaultUpdateInterval,
     thread_restart_enabled |-> TRUE,
     performance_monitoring |-> TRUE,
     cross_socket_balancing |-> TRUE,
     threads_per_socket |-> 1]

\* Whether start_mining may still be called within the bound on the threads.
ThreadsLeft ==
    Len(threads) + TOTAL_SOCKETS * config.threads_per_socket <= MaxWorkers

Configs ==
    [candidate_update_interval : {DefaultUpdateInterval},
     thread_restart_enabled : BOOLEAN,
     performance_monitoring : BOOLEAN,
     cross_socket_balancing : BOOLEAN,
     threads_per_socket : 1 .. MaxThreadsPerSocket]

\* The machines the pool is started on.
CpuCounts == {TOTAL_THREADS - 1, TOTAL_THREADS}

\* detect_numa_topology: socket_cpu_ranges, (start_cpu, end_cpu) per socket.
socket_cpu_ranges == <<<<0, 95>>, <<96, 191>>>>

\* DualSocketMiner::new and DualSocketMiningStats::new
PoolNew(cfg, cpus) ==
    /\ cpu_count = cpus
    /\ config = cfg
    /\ should_stop = FALSE
    /\ mining_handles = <<>>
    /\ threads = <<>>
    /\ threads_active = 0
    /\ monitor_threads = 0
    /\ balancer_threads = 0
    /\ miner_pc = "idle"
    /\ start_result = "none"

PoolInit == \E cfg \in Configs, cpus \in CpuCounts : PoolNew(cfg, cpus)

\* verify_dual_socket_config: Ok iff the machine has TOTAL_THREADS CPUs.
verify_dual_socket_config(cpus) == ~(cpus < TOTAL_THREADS)

\* start_socket_mining_group pinning thread_id without the wrap to the range.
SpawnedThread_no_wrap(socket, thread_id) ==
    LET cpu_start == socket_cpu_ranges[socket + 1][1]
    IN  [socket |-> socket,
         global_thread_id |-> socket * config.threads_per_socket + thread_id,
         cpu_id |-> cpu_start + thread_id,
         pc |-> "created",
         iteration_count |-> 0,
         exit |-> <<>>,
         joined |-> 0]

\* The thread start_socket_mining_group spawns for thread_id of a socket.
SpawnedThread(socket, thread_id) ==
    LET cpu_start == socket_cpu_ranges[socket + 1][1]
        cpu_end == socket_cpu_ranges[socket + 1][2]
        cpus_per_socket == cpu_end - cpu_start + 1
    IN  [socket |-> socket,
         global_thread_id |-> socket * config.threads_per_socket + thread_id,
         cpu_id |-> cpu_start + (thread_id % cpus_per_socket),
         pc |-> "created",
         iteration_count |-> 0,
         exit |-> <<>>,
         joined |-> 0]

\* The threads the loop over the sockets spawns, in order.
GroupThreads ==
    [i \in 1 .. TOTAL_SOCKETS * config.threads_per_socket |->
        SpawnedThread((i - 1) \div config.threads_per_socket,
                      (i - 1) % config.threads_per_socket)]

\* start_mining clearing should_stop before it spawns.
StartMining_rearms ==
    /\ miner_pc = "idle"
    /\ ThreadsLeft
    /\ IF ~verify_dual_socket_config(cpu_count)
       THEN /\ start_result' = "err_cpu"
            /\ UNCHANGED <<mining_handles, threads, monitor_threads,
                           balancer_threads, should_stop>>
       ELSE /\ should_stop' = FALSE
            /\ monitor_threads' =
                  IF config.performance_monitoring THEN monitor_threads + 1
                  ELSE monitor_threads
            /\ threads' = threads \o GroupThreads
            /\ mining_handles' = mining_handles \o
                  [i \in 1 .. Len(GroupThreads) |-> Len(threads) + i]
            /\ balancer_threads' =
                  IF config.cross_socket_balancing THEN balancer_threads + 1
                  ELSE balancer_threads
            /\ start_result' = "ok"
    /\ UNCHANGED <<driver_vars, calc_vars, stats_vars, host>>
    /\ UNCHANGED <<cpu_count, config, threads_active, miner_pc>>

\* start_mining with the CPU check made after the monitor is started.
StartMining_verify_late ==
    /\ miner_pc = "idle"
    /\ ThreadsLeft
    /\ ~verify_dual_socket_config(cpu_count)
    /\ monitor_threads' =
          IF config.performance_monitoring THEN monitor_threads + 1
          ELSE monitor_threads
    /\ start_result' = "err_cpu"
    /\ UNCHANGED <<driver_vars, calc_vars, stats_vars, host>>
    /\ UNCHANGED <<cpu_count, config, should_stop, mining_handles, threads,
                   threads_active, balancer_threads, miner_pc>>

\* start_mining.  The operating system is taken to create every thread the
\* call asks for.
StartMining ==
    /\ miner_pc = "idle"
    /\ ThreadsLeft
    /\ IF ~verify_dual_socket_config(cpu_count)
       THEN /\ start_result' = "err_cpu"
            /\ UNCHANGED <<mining_handles, threads, monitor_threads,
                           balancer_threads>>
       ELSE /\ monitor_threads' =
                  IF config.performance_monitoring THEN monitor_threads + 1
                  ELSE monitor_threads
            /\ threads' = threads \o GroupThreads
            /\ mining_handles' = mining_handles \o
                  [i \in 1 .. Len(GroupThreads) |-> Len(threads) + i]
            /\ balancer_threads' =
                  IF config.cross_socket_balancing THEN balancer_threads + 1
                  ELSE balancer_threads
            /\ start_result' = "ok"
    /\ UNCHANGED <<driver_vars, calc_vars, stats_vars, host>>
    /\ UNCHANGED <<cpu_count, config, should_stop, threads_active, miner_pc>>

\* The spawned closure giving up when the thread cannot be pinned.
WorkerEnter_pinned_only(t) ==
    /\ t \in 1 .. Len(threads)
    /\ threads[t].pc = "created"
    /\ IF host.affinity_ok /\ host.numa_ok
       THEN /\ threads' = [threads EXCEPT ![t].pc = "loop"]
            /\ threads_active' = threads_active + 1
       ELSE /\ threads' = [threads EXCEPT ![t].pc = "done"]
            /\ UNCHANGED threads_active
    /\ UNCHANGED <<driver_vars, calc_vars, stats_vars, host>>
    /\ UNCHANGED <<cpu_count, config, should_stop, mining_handles,
                   monitor_threads, balancer_threads, miner_pc, start_result>>

\* The closure of a worker thread up to its loop: set_thread_affinity and
\* set_numa_memory_affinity, whose failure (host) is only printed, then the
\* fetch_add at the head of dual_socket_mining_loop.
\* The locals of the loop (iteration_count) end with the thread: the model
\* clears them when the loop is left, and keeps in exit the iteration count
\* and the elapsed time of the restart check that broke the loop.
WorkerEnter(t) ==
    /\ t \in 1 .. Len(threads)
    /\ threads[t].pc = "created"
    /\ threads' = [threads EXCEPT ![t].pc = "loop"]
    /\ threads_active' = threads_active + 1
    /\ UNCHANGED <<driver_vars, calc_vars, stats_vars, host>>
    /\ UNCHANGED <<cpu_count, config, should_stop, mining_handles,
                   monitor_threads, balancer_threads, miner_pc, start_result>>

\* What start_time.elapsed() may read at a restart check, in seconds.
ElapsedTimes ==
    (config.candidate_update_interval - MaxClockSkew) ..
        (config.candidate_update_interval + MaxClockSkew)

\* The iteration count at which the loop next runs its restart check.
NextCheckpoint(count) == (count \div RestartCheckPeriod + 1) * RestartCheckPeriod

\* The restart check made whether or not the restart is enabled.
RestartDue_always_enabled(cfg, count, elapsed) ==
    /\ count % RestartCheckPeriod = 0
    /\ elapsed > cfg.candidate_update_interval

\* The restart check: TRUE when the loop breaks.
RestartDue(cfg, count, elapsed) ==
    /\ cfg.thread_restart_enabled
    /\ count % RestartCheckPeriod = 0
    /\ elapsed > cfg.candidate_update_interval

\* The loop of dual_socket_mining_loop, run with should_stop clear through
\* the next iteration that reaches the restart check; elapsed is what
\* start_time.elapsed() reads there.
WorkerIterate(t) ==
    /\ t \in 1 .. Len(threads)
    /\ threads[t].pc = "loop"
    /\ ~should_stop
    /\ NextCheckpoint(threads[t].iteration_count) <= MaxChecks * RestartCheckPeriod
    /\ \E elapsed \in ElapsedTimes :
          LET count == NextCheckpoint(threads[t].iteration_count) IN
          IF RestartDue(config, count, elapsed)
          THEN /\ threads' = [threads EXCEPT ![t].iteration_count = 0,
                                             ![t].exit = <<count, elapsed>>,
                                             ![t].pc = "done"]
               /\ threads_active' = threads_active - 1
          ELSE /\ threads' = [threads EXCEPT ![t].iteration_count = count]
               /\ threads_active' = threads_active
    /\ UNCHANGED <<driver_vars, calc_vars, stats_vars, host>>
    /\ UNCHANGED <<cpu_count, config, should_stop, mining_handles,
                   monitor_threads, balancer_threads, miner_pc, start_result>>

\* The loop left on should_stop by a return that skips the fetch_sub.
WorkerExitOnStop_no_decrement(t) ==
    /\ t \in 1 .. Len(threads)
    /\ threads[t].pc = "loop"
    /\ should_stop
    /\ threads' = [threads EXCEPT ![t].iteration_count = 0, ![t].pc = "done"]
    /\ UNCHANGED <<driver_vars, calc_vars, stats_vars, host>>
    /\ UNCHANGED <<cpu_count, config, should_stop, mining_handles,
                   threads_active, monitor_threads, balancer_threads,
                   miner_pc, start_result>>

\* The loop condition read with should_stop set: the loop ends.
WorkerExitOnStop(t) ==
    /\ t \in 1 .. Len(threads)
    /\ threads[t].pc = "loop"
    /\ should_stop
    /\ threads' = [threads EXCEPT ![t].iteration_count = 0, ![t].pc = "done"]
    /\ threads_active' = threads_active - 1
    /\ UNCHANGED <<driver_vars, calc_vars, stats_vars, host>>
    /\ UNCHANGED <<cpu_count, config, should_stop, mining_handles,
                   monitor_threads, balancer_threads, miner_pc, start_result>>

\* The monitor thread reads should_stop set and ends.
MonitorExit ==
    /\ monitor_threads > 0
    /\ should_stop
    /\ monitor_threads' = monitor_threads - 1
    /\ UNCHANGED <<driver_vars, calc_vars, stats_vars, host>>
    /\ UNCHANGED <<cpu_count, config, should_stop, mining_handles, threads,
                   threads_active, balancer_threads, miner_pc, start_result>>

\* The balancer thread reads should_stop set and ends.
BalancerExit ==
    /\ balancer_threads > 0
    /\ should_stop
    /\ balancer_threads' = balancer_threads - 1
    /\ UNCHANGED <<driver_vars, calc_vars, stats_vars, host>>
    /\ UNCHANGED <<cpu_count, config, should_stop, mining_handles, threads,
                   threads_active, monitor_threads, miner_pc, start_result>>

\* stop_mining is called: the flag is stored, the drain of the handles begins.
StopMining ==
    /\ miner_pc = "idle"
    /\ should_stop' = TRUE
    /\ miner_pc' = "stopping"
    /\ UNCHANGED <<driver_vars, calc_vars, stats_vars, host>>
    /\ UNCHANGED <<cpu_count, config, mining_handles, threads, threads_active,
                   monitor_threads, balancer_threads, start_result>>

\* The miner is dropped without stop_mining being run.
Drop_without_stop ==
    /\ miner_pc = "idle"
    /\ miner_pc' = "dropped"
    /\ UNCHANGED <<driver_vars, calc_vars, stats_vars, host>>
    /\ UNCHANGED <<cpu_count, config, should_stop, mining_handles, threads,
                   threads_active, monitor_threads, balancer_threads,
                   start_result>>

\* impl Drop: the miner goes out of scope and drop() calls stop_mining.
Drop ==
    /\ miner_pc = "idle"
    /\ should_stop' = TRUE
    /\ miner_pc' = "dropping"
    /\ UNCHANGED <<driver_vars, calc_vars, stats_vars, host>>
    /\ UNCHANGED <<cpu_count, config, mining_handles, threads, threads_active,
                   monitor_threads, balancer_threads, start_result>>

\* handle.join() of the drain loop, returning without the thread having ended.
JoinHandle_no_wait ==
    /\ miner_pc \in {"stopping", "dropping"}
    /\ mining_handles # <<>>
    /\ threads' = [threads EXCEPT ![Head(mining_handles)].joined = @ + 1]
    /\ mining_handles' = Tail(mining_handles)
    /\ UNCHANGED <<driver_vars, calc_vars, stats_vars, host>>
    /\ UNCHANGED <<cpu_count, config, should_stop, threads_active,
                   monitor_threads, balancer_threads, miner_pc, start_result>>

\* for handle in self.mining_handles.drain(..) { let _ = handle.join(); }:
\* the next handle leaves the list and join returns once its thread has
\* ended; the Err that join returns for a panicked thread is dropped, and
\* nothing of the thread's stack is left.
JoinHandle ==
    /\ miner_pc \in {"stopping", "dropping"}
    /\ mining_handles # <<>>
    /\ threads[Head(mining_handles)].pc \in {"done", "panicked"}
    /\ threads' = [threads EXCEPT ![Head(mining_handles)].joined = @ + 1,
                                  ![Head(mining_handles)].exit = <<>>]
    /\ mining_handles' = Tail(mining_handles)
    /\ UNCHANGED <<driver_vars, calc_vars, stats_vars, host>>
    /\ UNCHANGED <<cpu_count, config, should_stop, threads_active,
                   monitor_threads, balancer_threads, miner_pc, start_result>>

\* stop_mining returns once the drain is over.
StopReturn ==
    /\ miner_pc \in {"stopping", "dropping"}
    /\ mining_handles = <<>>
    /\ miner_pc' = IF miner_pc = "stopping" THEN "idle" ELSE "dropped"
    /\ UNCHANGED <<driver_vars, calc_vars, stats_vars, host>>
    /\ UNCHANGED <<cpu_count, config, should_stop, mining_handles, threads,
                   threads_active, monitor_threads, balancer_threads,
                   start_result>>

PoolNext ==
    \/ StartMining
    \/ \E t \in 1 .. Len(threads) : WorkerEnter(t)
    \/ \E t \in 1 .. Len(threads) : WorkerIterate(t)
    \/ \E t \in 1 .. Len(threads) : WorkerExitOnStop(t)
    \/ MonitorExit
    \/ BalancerExit
    \/ StopMining
    \/ Drop
    \/ JoinHandle
    \/ StopReturn

(***************************************************************************)
(* Specifications.                                                         *)
(***************************************************************************)

\* The coordinator, beside a pool that is constructed and left alone.
Init == DriverInit /\ PoolNew(DefaultConfig, TOTAL_THREADS) /\ CalcInit
    /\ HostInit /\ StatsInit

Next == DriverNext

Spec == Init /\ [][Next]_vars

\* The coordinator with the scheduling of its runtime: the driver future is
\* polled, so a branch body that has started runs to its end, and the JoinSet
\* hands over the result of a serf whose poke has been cancelled.  When a
\* %mine effect arrives is up to the kernel.
DriverFairness ==
    /\ WF_vars(HandleResult)
    /\ WF_vars(Publish)
    /\ WF_vars(Dispatch)
    /\ SF_vars(\E a \in mining_attempts, kind \in ResultKinds :
                  a.status = "cancelled" /\ JoinNext(a, kind))

FairSpec == Init /\ [][Next]_vars /\ DriverFairness

\* The pool, beside a coordinator that is not started.
InitPool == DriverInit /\ PoolInit /\ CalcInit
    /\ HostInit /\ StatsInit

SpecPool == InitPool /\ [][PoolNext]_vars

\* The pool with the scheduling of the operating system: a thread that can
\* take a step takes it, and a call that can proceed proceeds.  Calling
\* start_mining, stop_mining or dropping the miner is up to the owner.
PoolFairness ==
    /\ \A t \in 1 .. MaxWorkers :
          /\ WF_vars(WorkerEnter(t))
          /\ WF_vars(WorkerIterate(t))
          /\ WF_vars(WorkerExitOnStop(t))
    /\ WF_vars(MonitorExit)
    /\ WF_vars(BalancerExit)
    /\ WF_vars(JoinHandle)
    /\ WF_vars(StopReturn)

FairSpecPool == InitPool /\ [][PoolNext]_vars /\ PoolFairness

\* A panic inside the hash step of a worker: the thread unwinds out of
\* dual_socket_mining_loop, which has no guard that runs the fetch_sub, and
\* ends; no other thread is affected.
WorkerPanic(t) ==
    /\ t \in 1 .. Len(threads)
    /\ threads[t].pc = "loop"
    /\ threads' = [threads EXCEPT ![t].iteration_count = 0,
                                  ![t].pc = "panicked"]
    /\ UNCHANGED <<driver_vars, calc_vars, stats_vars, host>>
    /\ UNCHANGED <<cpu_count, config, should_stop, mining_handles,
                   threads_active, monitor_threads, balancer_threads,
                   miner_pc, start_result>>

FaultyPoolNext ==
    \/ PoolNext
    \/ \E t \in 1 .. Len(threads) : WorkerPanic(t)

\* The pool with workers whose hash step may panic.
InitFaults ==
    /\ DriverInit
    /\ PoolNew(DefaultConfig, TOTAL_THREADS)
    /\ CalcInit /\ HostInit /\ StatsInit

SpecPoolFaults == InitFaults /\ [][FaultyPoolNext]_vars

\* The outcomes of sched_setaffinity in a worker, of set_mempolicy in a
\* worker and of set_mempolicy in setup_numa_memory_policy.
Hosts == [affinity_ok : BOOLEAN, numa_ok : BOOLEAN, mempolicy_ok : BOOLEAN]

\* The pool on a host where any of the pinning calls may fail.
InitPin ==
    /\ DriverInit
    /\ \E cpus \in CpuCounts : PoolNew(DefaultConfig, cpus)
    /\ CalcInit
    /\ host \in Hosts
    /\ StatsInit

SpecPin == InitPin /\ [][PoolNext]_vars

(***************************************************************************)
(* Properties of the coordinator (under Spec).                             *)
(***************************************************************************)

\* The poke was built from the candidate held in data.
BuiltFrom(poke, data) ==
    /\ poke.version = data.version
    /\ poke.header = data.block_header
    /\ poke.target = data.target
    /\ poke.pow_len = data.pow_len

\* Number of attempts in the set S that belong to worker i.
InFlight(S, i) == Cardinality({a \in S : a.id = i})

\* C1: a completion of an attempt that was dispatched against a candidate
\* that has been replaced since causes no 'mined' poke to the host node,
\* whatever it reports.
C1_StaleResultNotRelayed ==
    [][(/\ driver_pc = "handle"
        /\ mining_data # <<>>
        /\ ~BuiltFrom(mining_result[1].poke, mining_data[1]))
       => mined_pokes' = mined_pokes]_vars

\* A stale solution has been taken from the JoinSet and is about to be handled.
C1_Witness ==
    /\ driver_pc = "handle"
    /\ mining_result[1].kind = "solution"
    /\ mining_data # <<>>
    /\ ~BuiltFrom(mining_result[1].poke, mining_data[1])

\* C2: every attempt that is dispatched is built from the header, version,
\* target and pow_len of the candidate published last, never from one that
\* has been replaced.
C2_DispatchUsesPublishedCandidate ==
    [][\A a \in mining_attempts' :
          (a \notin mining_attempts /\ a.status = "running")
          => (/\ mining_data' # <<>>
              /\ mining_data' = mining_data
              /\ BuiltFrom(a.poke, mining_data'[1]))]_vars

\* After a replacement one worker has been dispatched again, on the new
\* candidate, while another still runs on the old one.
C2_Witness ==
    /\ mining_data # <<>>
    /\ \E a \in mining_attempts, b \in mining_attempts :
          /\ a.poke.nonce.origin # "generated"
          /\ BuiltFrom(a.poke, mining_data[1])
          /\ ~BuiltFrom(b.poke, mining_data[1])

\* C3: handling a completion that reports a solution sends exactly one
\* 'mined' poke to the host node, and no other step of the driver sends any.
C3_OnePokePerSolution ==
    [][IF driver_pc = "handle" /\ mining_result[1].kind = "solution"
       THEN mined_pokes' = mined_pokes + 1
       ELSE mined_pokes' = mined_pokes]_vars

\* One solution and one non-solution have been handled.
C3_Witness ==
    /\ driver_pc = "select"
    /\ mined_pokes = 1
    /\ \E a \in mining_attempts : a.poke.nonce.origin = "hash"
    /\ \E a \in mining_attempts : a.poke.nonce.origin = "tail"

C5_GenerationIncreases ==
    [][(driver_pc = "publish" /\ mining_data # <<>>)
       => mining_data'[1].optimization_stats > mining_data[1].optimization_stats]_vars

\* C6: no cancellation is signalled before the candidate of the %mine effect
\* being handled is the published one, and the worker a cancellation
\* restarts is dispatched on the published candidate.
C6_PublishBeforeCancel ==
    [][/\ (\E a \in mining_attempts' :
              a.status = "cancelled" /\ a \notin mining_attempts)
          => (/\ effect # <<>>
              /\ mining_data = <<OptimizedMiningData(effect[1])>>)
       /\ (driver_pc = "handle" /\ mining_result[1].kind = "poke")
          => \E b \in mining_attempts' :
                /\ b \notin mining_attempts
                /\ b.id = mining_result[1].id
                /\ BuiltFrom(b.poke, mining_data[1])]_vars

\* A replacement has cancelled an attempt of the candidate it replaced, and
\* a cancelled worker has been restarted on the new one.
C6_Witness ==
    /\ driver_pc = "select"
    /\ mining_data # <<>>
    /\ \E a \in mining_attempts :
          a.status = "cancelled" /\ ~BuiltFrom(a.poke, mining_data[1])
    /\ \E b \in mining_attempts :
          /\ b.status = "running"
          /\ b.poke.nonce.origin = "generated"
          /\ BuiltFrom(b.poke, mining_data[1])

(***************************************************************************)
(* Properties of the pool (under SpecPool and FairSpecPool).               *)
(***************************************************************************)

Threads == 1 .. Len(threads)

\* The thread t has a handle in mining_handles.
HasHandle(t) == \E i \in 1 .. Len(mining_handles) : mining_handles[i] = t

\* C7: stop_mining terminates, and when it returns the handle list is
\* empty, every worker thread has left its loop and has been joined, and
\* the active-worker counter is 0.
C7_StopJoinsAllWorkers ==
    /\ [][(miner_pc = "stopping" /\ miner_pc' = "idle")
          => (/\ should_stop'
              /\ mining_handles' = <<>>
              /\ threads_active' = 0
              /\ \A t \in Threads :
                    threads'[t].pc = "done" /\ threads'[t].joined = 1)]_vars
    /\ (miner_pc = "stopping") ~> (miner_pc = "idle")

\* stop_mining has returned after joining the workers of a started pool.
C7_Witness ==
    /\ miner_pc = "idle"
    /\ should_stop
    /\ start_result = "ok"
    /\ mining_handles = <<>>
    /\ \A t \in Threads : threads[t].joined = 1

\* C8: no worker thread is joined twice, a thread is joined exactly when its
\* handle has left the list, a dropped miner leaves no thread unjoined, and
\* a stop_mining call that finds the pool stopped and the list empty joins
\* nothing and changes nothing.
C8_StopIdempotentJoinOnce ==
    /\ [](\A t \in Threads :
             /\ threads[t].joined \in {0, 1}
             /\ (threads[t].joined = 1) <=> ~HasHandle(t)
             /\ Cardinality({i \in 1 .. Len(mining_handles) : mining_handles[i] = t}) <= 1)
    /\ [](miner_pc = "dropped" => \A t \in Threads : threads[t].joined = 1)
    /\ [][(/\ should_stop
           /\ mining_handles = <<>>
           /\ miner_pc' # miner_pc)
          => UNCHANGED <<should_stop, mining_handles, threads, threads_active,
                         monitor_threads, balancer_threads, start_result>>]_vars

\* The miner was stopped, then dropped: drop() ran stop_mining once more.
C8_Witness ==
    /\ miner_pc = "dropped"
    /\ Len(threads) > 0
    /\ \A t \in Threads : threads[t].joined = 1

\* C9: a worker that has left its loop on the restart check, without a
\* shutdown, is eventually replaced by a running worker on the same CPU.
C9_RestartedWorkerRespawned ==
    \A t \in 1 .. MaxWorkers :
       (t \in Threads /\ threads[t].pc = "done" /\ ~should_stop)
       ~> (\/ should_stop
           \/ \E u \in Threads :
                 /\ t \in Threads
                 /\ u # t
                 /\ threads[u].cpu_id = threads[t].cpu_id
                 /\ threads[u].pc = "loop")

\* A worker has left its loop on the restart check.
C9_Witness ==
    /\ ~should_stop
    /\ \E t \in Threads : threads[t].pc = "done"
    /\ threads_active < Len(threads)

\* C10: when start_mining has returned the error of too few CPUs, the pool
\* has no worker thread, no monitor thread, no balancer thread and no
\* handle, and the active-worker counter is 0.
C10_NoThreadOnCpuError ==
    start_result = "err_cpu"
    => (/\ threads = <<>>
        /\ mining_handles = <<>>
        /\ monitor_threads = 0
        /\ balancer_threads = 0
        /\ threads_active = 0)

\* start_mining has failed on a machine with too few CPUs.
C10_Witness ==
    /\ start_result = "err_cpu"
    /\ cpu_count < TOTAL_THREADS
    /\ miner_pc = "idle"

\* The CPUs the pool keeps free of workers for the system.
ReservedMargin == TOTAL_THREADS - MINING_THREADS

\* C11: start_mining returns the error of too few CPUs exactly when the
\* machine has fewer CPUs than the workers the configuration asks for, less
\* the reserved margin, and succeeds otherwise.
C11_FailsIffBelowRequested ==
    start_result # "none"
    => ((start_result = "err_cpu")
        <=> (cpu_count < TOTAL_SOCKETS * config.threads_per_socket - ReservedMargin))

(***************************************************************************)
(* Topology and worker placement (under SpecTopology).                     *)
(***************************************************************************)

\* The CPU ids of a range (start_cpu, end_cpu).
RangeCpus(r) == r[1] .. r[2]

\* EpycMiner::calculate_cpu_affinity.
calculate_cpu_affinity(ccd_id, thread_id) ==
    LET physical_core == ccd_id * ZEN4_CCD_SIZE + (thread_id % ZEN4_CCD_SIZE)
    IN  IF thread_id < ZEN4_CCD_SIZE
        THEN physical_core
        ELSE physical_core + EPYC_9B14_CORES

\* The logical CPUs of a CCD: its physical cores and their SMT siblings.
CcdCpus(ccd_id) ==
    LET first == ccd_id * ZEN4_CCD_SIZE
    IN  (first .. first + ZEN4_CCD_SIZE - 1)
        \cup (first + EPYC_9B14_CORES .. first + EPYC_9B14_CORES + ZEN4_CCD_SIZE - 1)

\* set_thread_affinity of mining_optimized.rs: the logical core of a thread.
set_thread_affinity(thread_id) ==
    LET numa_node == thread_id \div BATCH_SIZE_PER_NUMA_NODE
        core_in_node == thread_id % BATCH_SIZE_PER_NUMA_NODE
    IN  numa_node * BATCH_SIZE_PER_NUMA_NODE + core_in_node

\* The CPUs that get a worker when start_mining runs its loop over the
\* sockets with the given threads_per_socket.
PlacedCpus(threads_per_socket) ==
    { SpawnedThread(socket, thread_id).cpu_id :
        socket \in 0 .. TOTAL_SOCKETS - 1,
        thread_id \in 0 .. threads_per_socket - 1 }

DetectTopology ==
    /\ calc.fn = "none"
    /\ calc' = [fn |-> "detect_numa_topology", args |-> <<>>,
                out |-> socket_cpu_ranges]
    /\ UNCHANGED <<driver_vars, pool_vars, stats_vars>>

PlaceSocketThread(socket, thread_id) ==
    /\ calc.fn = "none"
    /\ calc' = [fn |-> "start_socket_mining_group",
                args |-> <<socket, thread_id>>,
                out |-> SpawnedThread(socket, thread_id).cpu_id]
    /\ UNCHANGED <<driver_vars, pool_vars, stats_vars>>

PlaceCcdThread(ccd_id, thread_id) ==
    /\ calc.fn = "none"
    /\ calc' = [fn |-> "calculate_cpu_affinity",
                args |-> <<ccd_id, thread_id>>,
                out |-> calculate_cpu_affinity(ccd_id, thread_id)]
    /\ UNCHANGED <<driver_vars, pool_vars, stats_vars>>

PlaceSerfThread(thread_id) ==
    /\ calc.fn = "none"
    /\ calc' = [fn |-> "set_thread_affinity",
                args |-> <<thread_id>>,
                out |-> set_thread_affinity(thread_id)]
    /\ UNCHANGED <<driver_vars, pool_vars, stats_vars>>

PlaceAll(threads_per_socket) ==
    /\ calc.fn = "none"
    /\ calc' = [fn |-> "start_mining",
                args |-> <<threads_per_socket>>,
                out |-> PlacedCpus(threads_per_socket)]
    /\ UNCHANGED <<driver_vars, pool_vars, stats_vars>>

\* MINING_THREADS of mining_epyc9b14.rs.
MINING_THREADS_9B14 == 62

\* The handles pushed by a start loop over the groups, each group spawning
\* per_group threads: <<group, thread_id>> in the order of the pushes.
RECURSIVE SpawnedHandles(_, _, _)
SpawnedHandles(group, groups, per_group) ==
    IF group = groups THEN <<>>
    ELSE [thread_id \in 1 .. per_group |-> <<group, thread_id - 1>>]
         \o SpawnedHandles(group + 1, groups, per_group)

\* start_mining of a pool with its default configuration: the handles it
\* holds on return and the thread count its last message reports.
start_mining_default(pool) ==
    IF pool = "epyc7k62_dual"
    THEN [handles |-> SpawnedHandles(0, TOTAL_SOCKETS,
                                     MINING_THREADS \div TOTAL_SOCKETS),
          reported |-> MINING_THREADS]
    ELSE [handles |-> SpawnedHandles(0, EPYC_9B14_CCDS,
                                     MINING_THREADS_9B14 \div EPYC_9B14_CCDS),
          reported |-> MINING_THREADS_9B14]

Pools == {"epyc7k62_dual", "epyc9b14"}

StartDefault(pool) ==
    /\ calc.fn = "none"
    /\ calc' = [fn |-> "start_mining_default", args |-> <<pool>>,
                out |-> start_mining_default(pool)]
    /\ UNCHANGED <<driver_vars, pool_vars, stats_vars>>

TopologyNext ==
    \/ \E pool \in Pools : StartDefault(pool)
    \/ DetectTopology
    \/ \E socket \in 0 .. TOTAL_SOCKETS - 1, thread_id \in 0 .. MaxThreadId :
          PlaceSocketThread(socket, thread_id)
    \/ \E ccd_id \in 0 .. EPYC_9B14_CCDS - 1, thread_id \in 0 .. MaxThreadId :
          PlaceCcdThread(ccd_id, thread_id)
    \/ \E thread_id \in 0 .. MaxThreadId : PlaceSerfThread(thread_id)
    \/ \E threads_per_socket \in 1 .. MaxThreadId : PlaceAll(threads_per_socket)
    \/ CalcReturn

InitTopology == DriverInit /\ PoolNew(DefaultConfig, TOTAL_THREADS) /\ CalcInit
    /\ HostInit /\ StatsInit

SpecTopology == InitTopology /\ [][TopologyNext]_vars

\* C12: the CPU ranges of the groups are pairwise disjoint and together
\* hold as many CPUs as the machine has, less the reserved margin.
C12_RangesPartitionUnreserved ==
    calc.fn = "detect_numa_topology"
    => LET ranges == calc.out IN
       /\ \A i \in 1 .. Len(ranges), j \in 1 .. Len(ranges) :
             i # j => RangeCpus(ranges[i]) \cap RangeCpus(ranges[j]) = {}
       /\ Cardinality(UNION { RangeCpus(ranges[i]) : i \in 1 .. Len(ranges) })
             = TOTAL_THREADS - ReservedMargin

C14_ReservedCpusStayFree ==
    calc.fn = "start_mining"
    => Cardinality((0 .. TOTAL_THREADS - 1) \ calc.out) >= ReservedMargin

(***************************************************************************)
(* Field arithmetic of base_optimized.rs (under SpecMath).                 *)
(***************************************************************************)

\* 2^HalfBits, and the number of values of a word (u64 in the code).
HalfWord == 2 ^ HalfBits
Word == HalfWord * HalfWord
Words == 0 .. Word - 1
\* The values of a double word (u128 in the code).
DoubleWords == 0 .. Word * Word - 1

\* PRIME of form::math::base: 2^64 - 2^32 + 1 at the code's width.
PRIME == Word - HalfWord + 1
\* The field elements.
Field == 0 .. PRIME - 1

\* The reference operations of form::math::base on field elements.
reduce(n) == n % PRIME
badd(a, b) == (a + b) % PRIME
bmul(a, b) == (a * b) % PRIME

\* u64 arithmetic: wrapping_mul, wrapping_add, wrapping_sub.
wrapping_mul(a, b) == (a * b) % Word
wrapping_add(a, b) == (a + b) % Word
wrapping_sub(a, b) == (a + Word - b) % Word

\* reduce_128_optimized.
reduce_128_optimized(n) ==
    LET low == n % Word
        high == n \div Word
        temp == wrapping_mul(high, HalfWord - 1)
        carry1 == low < temp
        result == IF carry1
                  THEN wrapping_add(wrapping_sub(low, temp), PRIME)
                  ELSE wrapping_sub(low, temp)
        carry2 == result + high >= Word
        final_result == wrapping_add(result, high)
    IN  IF carry2 \/ final_result >= PRIME
        THEN wrapping_sub(final_result, PRIME)
        ELSE final_result

Reduce128(n) ==
    /\ calc.fn = "none"
    /\ calc' = [fn |-> "reduce_128_optimized", args |-> <<n>>,
                out |-> reduce_128_optimized(n)]
    /\ UNCHANGED <<driver_vars, pool_vars, stats_vars>>

\* The vector of the given length that starts at seed and grows by step.
VecOf(len, seed, step) == [i \in 1 .. len |-> (seed + (i - 1) * step) % PRIME]

\* Field elements at the edges of the field.
Seeds == {0, 1, PRIME - 1}

\* The lengths of the vectors given to the batch operations.
Lens == (0 .. MaxLen) \cup {SIMD_WIDTH, 2 * SIMD_WIDTH}

\* Pairs of vectors of field elements: two full 512-bit vectors whose lanes
\* hold, over all the pairs, every pair of field elements; and vectors of
\* every length at the edges.
BatchInputs ==
    { <<VecOf(2 * SIMD_WIDTH, 2 * SIMD_WIDTH * k, 1), VecOf(2 * SIMD_WIDTH, y, 0)>> :
        k \in 0 .. (PRIME \div (2 * SIMD_WIDTH)), y \in Field }
    \cup { <<VecOf(la, x, 1), VecOf(lb, y, 2)>> :
             la \in Lens, lb \in Lens, x \in Seeds, y \in Seeds }

\* The outcome of a call: a panic, or the value it returns.
Panic == [panicked |-> TRUE, value |-> <<>>]
Returns(v) == [panicked |-> FALSE, value |-> v]

\* One lane of badd_batch_avx512 without the correction of the underflow.
badd_lane_no_correction(a, b) ==
    wrapping_sub(a, wrapping_sub(PRIME, b))

\* One lane of badd_batch_avx512: the 64-bit lane operations of the loop body.
badd_lane(a, b) ==
    LET neg_b == wrapping_sub(PRIME, b)
        diff == wrapping_sub(a, neg_b)
        correction == IF a < neg_b THEN PRIME ELSE 0
    IN  wrapping_add(diff, correction)

\* One lane of bmul_batch_avx512: the 128-bit product, reduced.
bmul_lane(a, b) ==
    LET prod_lo == (a * b) % Word
        prod_hi == (a * b) \div Word
        product == prod_hi * Word + prod_lo
    IN  reduce_128_optimized(product)

\* badd_batch_avx512(a, b, result), result being a slice of result_len words.
badd_batch_avx512(a, b, result_len) ==
    IF Len(a) # Len(b) \/ Len(a) # result_len \/ Len(a) % SIMD_WIDTH # 0
    THEN Panic
    ELSE Returns([i \in 1 .. Len(a) |-> badd_lane(a[i], b[i])])

\* bmul_batch_avx512(a, b, result).
bmul_batch_avx512(a, b, result_len) ==
    IF Len(a) # Len(b) \/ Len(a) # result_len \/ Len(a) % SIMD_WIDTH # 0
    THEN Panic
    ELSE Returns([i \in 1 .. Len(a) |-> bmul_lane(a[i], b[i])])

BaddBatch(a, b, result_len) ==
    /\ calc.fn = "none"
    /\ calc' = [fn |-> "badd_batch_avx512", args |-> <<a, b, result_len>>,
                out |-> badd_batch_avx512(a, b, result_len)]
    /\ UNCHANGED <<driver_vars, pool_vars, stats_vars>>

BmulBatch(a, b, result_len) ==
    /\ calc.fn = "none"
    /\ calc' = [fn |-> "bmul_batch_avx512", args |-> <<a, b, result_len>>,
                out |-> bmul_batch_avx512(a, b, result_len)]
    /\ UNCHANGED <<driver_vars, pool_vars, stats_vars>>

\* BatchProcessor::new: the batch_size of the processor.
BatchProcessor_new(max_elements) ==
    ((max_elements + SIMD_WIDTH - 1) \div SIMD_WIDTH) * SIMD_WIDTH

\* The body of the chunk loop of process_batch_add and process_batch_mul:
\* the part of the result that the chunk at chunk_start gives.
ChunkResult(op, a, b, chunk_start, chunk_size, len, avx512) ==
    LET chunk_end == IF chunk_start + chunk_size < len
                     THEN chunk_start + chunk_size ELSE len
        chunk_len == chunk_end - chunk_start
        padded_len == ((chunk_len + SIMD_WIDTH - 1) \div SIMD_WIDTH) * SIMD_WIDTH
        a_chunk == [i \in 1 .. padded_len |->
                       IF i <= chunk_len THEN a[chunk_start + i] ELSE 0]
        b_chunk == [i \in 1 .. padded_len |->
                       IF i <= chunk_len THEN b[chunk_start + i] ELSE 0]
        scalar == [i \in 1 .. padded_len |->
                      IF i <= chunk_len
                      THEN IF op = "add" THEN badd(a_chunk[i], b_chunk[i])
                                         ELSE bmul(a_chunk[i], b_chunk[i])
                      ELSE 0]
        vector == IF op = "add"
                  THEN badd_batch_avx512(a_chunk, b_chunk, padded_len).value
                  ELSE bmul_batch_avx512(a_chunk, b_chunk, padded_len).value
        result_chunk == IF avx512 THEN vector ELSE scalar
    IN  SubSeq(result_chunk, 1, chunk_len)

\* The chunk loop from chunk_start on.
RECURSIVE ProcessChunks(_, _, _, _, _, _, _)
ProcessChunks(op, a, b, chunk_start, chunk_size, len, avx512) ==
    IF chunk_start >= len
    THEN <<>>
    ELSE ChunkResult(op, a, b, chunk_start, chunk_size, len, avx512)
         \o ProcessChunks(op, a, b, chunk_start + chunk_size, chunk_size, len, avx512)

\* process_batch_add and process_batch_mul.  step_by panics on a step of 0.
process_batch(op, batch_size, a, b, avx512) ==
    LET len == IF Len(a) < Len(b) THEN Len(a) ELSE Len(b)
        chunk_size == IF batch_size < len THEN batch_size ELSE len
    IN  IF chunk_size = 0
        THEN Panic
        ELSE Returns(ProcessChunks(op, a, b, 0, chunk_size, len, avx512))

process_batch_add(batch_size, a, b, avx512) ==
    process_batch("add", batch_size, a, b, avx512)

process_batch_mul(batch_size, a, b, avx512) ==
    process_batch("mul", batch_size, a, b, avx512)

\* Pairs of vectors of field elements of every length at the edges.
ProcessorInputs ==
    { <<VecOf(la, x, 1), VecOf(lb, y, 2)>> :
        la \in Lens, lb \in Lens, x \in Seeds, y \in Seeds }

\* A processor is created for max_elements and adds a and b; avx512 is
\* what is_x86_feature_detected!("avx512f") answers on the host.
ProcessBatchAdd(max_elements, a, b, avx512) ==
    /\ calc.fn = "none"
    /\ calc' = [fn |-> "process_batch_add",
                args |-> <<a, b, BatchProcessor_new(max_elements), avx512>>,
                out |-> process_batch_add(BatchProcessor_new(max_elements), a, b, avx512)]
    /\ UNCHANGED <<driver_vars, pool_vars, stats_vars>>

ProcessBatchMul(max_elements, a, b, avx512) ==
    /\ calc.fn = "none"
    /\ calc' = [fn |-> "process_batch_mul",
                args |-> <<a, b, BatchProcessor_new(max_elements), avx512>>,
                out |-> process_batch_mul(BatchProcessor_new(max_elements), a, b, avx512)]
    /\ UNCHANGED <<driver_vars, pool_vars, stats_vars>>

\* poly_eval_optimized taking coeffs[0] for the leading coefficient.
poly_eval_leading_first(coeffs, x) ==
    LET RECURSIVE Horner(_, _)
        Horner(k, result) ==
            IF k > Len(coeffs) THEN result
            ELSE Horner(k + 1, badd(bmul(result, x), coeffs[k]))
    IN  IF coeffs = <<>>
        THEN 0
        ELSE Horner(2, coeffs[1])

\* Horner's loop evaluated from the highest coefficient down, with no
\* special case for the first one.
poly_eval_from_zero(coeffs, x) ==
    LET RECURSIVE Horner(_, _)
        Horner(k, result) ==
            IF k = 0 THEN result
            ELSE Horner(k - 1, badd(bmul(result, x), coeffs[k]))
    IN  Horner(Len(coeffs), 0)

\* poly_eval_optimized.
poly_eval_optimized(coeffs, x) ==
    LET RECURSIVE Horner(_, _)
        Horner(k, result) ==
            IF k = 0 THEN result
            ELSE Horner(k - 1, badd(bmul(result, x), coeffs[k]))
    IN  IF coeffs = <<>>
        THEN 0
        ELSE Horner(Len(coeffs) - 1, coeffs[Len(coeffs)])

\* Points a polynomial is evaluated at: edges of the field and of the word.
PolyPoints == {0, 1, 2, PRIME - 1, PRIME, Word - 1}

\* No coefficient with any word as point, one coefficient that is any word,
\* longer polynomials over the field at the edge points, and polynomials of
\* two and three coefficients at every point of the field.
PolyInputs ==
    { <<<<>>, x>> : x \in Words }
    \cup { <<<<c>>, x>> : c \in Words, x \in PolyPoints }
    \cup { <<VecOf(len, seed, 1), x>> :
             len \in 2 .. MaxLen, seed \in Seeds, x \in PolyPoints \cap Field }
    \cup { <<coeffs, x>> :
             coeffs \in [1 .. 2 -> Seeds] \cup [1 .. 3 -> Seeds], x \in Field }

PolyEval(coeffs, x) ==
    /\ calc.fn = "none"
    /\ calc' = [fn |-> "poly_eval_optimized", args |-> <<coeffs, x>>,
                out |-> poly_eval_optimized(coeffs, x)]
    /\ UNCHANGED <<driver_vars, pool_vars, stats_vars>>

MathNext ==
    \/ /\ calc.fn = "none"
       /\ \E n \in DoubleWords : Reduce128(n)
    \/ /\ calc.fn = "none"
       /\ \E ab \in BatchInputs, result_len \in Lens :
             /\ result_len \in {Len(ab[1]), Len(ab[2])}
             /\ BaddBatch(ab[1], ab[2], result_len)
    \/ /\ calc.fn = "none"
       /\ \E ab \in BatchInputs, result_len \in Lens :
             /\ result_len \in {Len(ab[1]), Len(ab[2])}
             /\ BmulBatch(ab[1], ab[2], result_len)
    \/ /\ calc.fn = "none"
       /\ \E max_elements \in 0 .. MaxElements, ab \in ProcessorInputs,
             avx512 \in BOOLEAN :
             ProcessBatchAdd(max_elements, ab[1], ab[2], avx512)
    \/ /\ calc.fn = "none"
       /\ \E max_elements \in 0 .. MaxElements, ab \in ProcessorInputs,
             avx512 \in BOOLEAN :
             ProcessBatchMul(max_elements, ab[1], ab[2], avx512)
    \/ /\ calc.fn = "none"
       /\ \E cx \in PolyInputs : PolyEval(cx[1], cx[2])
    \/ CalcReturn

InitMath == DriverInit /\ PoolNew(DefaultConfig, TOTAL_THREADS) /\ CalcInit
    /\ HostInit /\ StatsInit

SpecMath == InitMath /\ [][MathNext]_vars

\* C15: reduce_128_optimized returns n mod PRIME for every double word n.
C15_ReduceIsRemainder ==
    calc.fn = "reduce_128_optimized" => calc.out = reduce(calc.args[1])

\* C16: on vectors of field elements of equal length, a multiple of the
\* batch width, bmul_batch_avx512 returns in every lane (a[i] * b[i]) mod
\* PRIME, the result of the scalar bmul.
C16_BatchMulIsScalarMul ==
    (calc.fn = "bmul_batch_avx512" /\ ~calc.out.panicked)
    => /\ Len(calc.out.value) = Len(calc.args[1])
       /\ \A i \in 1 .. Len(calc.out.value) :
             calc.out.value[i] = bmul(calc.args[1][i], calc.args[2][i])

\* C17: on vectors of field elements of equal length, a multiple of the
\* batch width, badd_batch_avx512 returns in every lane (a[i] + b[i]) mod
\* PRIME, the result of the scalar badd, a field element.
C17_BatchAddIsScalarAdd ==
    (calc.fn = "badd_batch_avx512" /\ ~calc.out.panicked)
    => /\ Len(calc.out.value) = Len(calc.args[1])
       /\ \A i \in 1 .. Len(calc.out.value) :
             /\ calc.out.value[i] = badd(calc.args[1][i], calc.args[2][i])
             /\ calc.out.value[i] \in Field

\* Two full vectors were added, with a lane whose sum passes PRIME and a
\* lane whose sum does not.
C17_Witness ==
    /\ calc.fn = "badd_batch_avx512"
    /\ ~calc.out.panicked
    /\ Len(calc.out.value) = 2 * SIMD_WIDTH
    /\ \E i \in 1 .. Len(calc.out.value) :
          calc.args[1][i] + calc.args[2][i] >= PRIME
    /\ \E i \in 1 .. Len(calc.out.value) :
          calc.args[1][i] + calc.args[2][i] < PRIME

\* C18: for a processor of any capacity and inputs a, b of any equal length,
\* process_batch_add returns a vector of that length holding the scalar
\* badd of a[i] and b[i] at every i.
C18_ProcessBatchAddIsScalarAdd ==
    (calc.fn = "process_batch_add" /\ Len(calc.args[1]) = Len(calc.args[2]))
    => /\ ~calc.out.panicked
       /\ Len(calc.out.value) = Len(calc.args[1])
       /\ \A i \in 1 .. Len(calc.out.value) :
             calc.out.value[i] = badd(calc.args[1][i], calc.args[2][i])

\* C19: a call of a batch entry point with inputs of different lengths, and
\* a call of a vector kernel with a length that is no multiple of the batch
\* width, panics and returns no result.
C19_LengthMismatchIsFatal ==
    /\ (/\ calc.fn \in {"badd_batch_avx512", "bmul_batch_avx512",
                        "process_batch_add", "process_batch_mul"}
        /\ Len(calc.args[1]) # Len(calc.args[2]))
       => calc.out.panicked
    /\ (/\ calc.fn \in {"badd_batch_avx512", "bmul_batch_avx512"}
        /\ Len(calc.args[1]) % SIMD_WIDTH # 0)
       => calc.out.panicked

\* C20: poly_eval_optimized returns 0 for no coefficient and c for the one
\* coefficient c, at every point x.
C20_PolyEvalOfShortSequences ==
    calc.fn = "poly_eval_optimized"
    => /\ calc.args[1] = <<>> => calc.out = 0
       /\ Len(calc.args[1]) = 1 => calc.out = calc.args[1][1]

\* The polynomial of one coefficient that is no field element was evaluated
\* at a point other than 0.
C20_Witness ==
    /\ calc.fn = "poly_eval_optimized"
    /\ Len(calc.args[1]) = 1
    /\ calc.args[1][1] >= PRIME
    /\ calc.args[2] > 0
    /\ calc.out = calc.args[1][1]

(***************************************************************************)
(* Telemetry: balance ratio, balancer and hash-rate reports (SpecStats).   *)
(***************************************************************************)

\* f64 values are modelled as exact fractions <<numerator, denominator>> in
\* lowest terms; the rounding of f64 is not modelled.
RECURSIVE GCD(_, _)
GCD(a, b) == IF b = 0 THEN a ELSE GCD(b, a % b)

Frac(n, d) == LET g == GCD(n, d) IN <<n \div g, d \div g>>
FracOfInt(n) == <<n, 1>>
FracDiv(x, y) == Frac(x[1] * y[2], x[2] * y[1])
FracMul(x, y) == Frac(x[1] * y[1], x[2] * y[2])
FracLess(x, y) == x[1] * y[2] < y[1] * x[2]

\* get_numa_balance_ratio returning the rate of socket 1 over that of socket 0.
numa_balance_ratio_inverted(socket0_rate, socket1_rate) ==
    IF socket1_rate = 0
    THEN FracOfInt(0)
    ELSE IF socket0_rate = 0
         THEN FracOfInt(0)
         ELSE FracMul(FracDiv(FracOfInt(socket1_rate), FracOfInt(socket0_rate)),
                      FracOfInt(100))

\* get_numa_balance_ratio, on the two rates it has loaded.
numa_balance_ratio(socket0_rate, socket1_rate) ==
    IF socket1_rate = 0
    THEN FracOfInt(0)
    ELSE FracMul(FracDiv(FracOfInt(socket0_rate), FracOfInt(socket1_rate)),
                 FracOfInt(100))

\* The rates a caller of get_numa_balance_ratio may find in the counters.
RatioRates == 0 .. 2 * MaxRate

\* A reader calls get_numa_balance_ratio while the counters hold r0 and r1.
GetBalanceRatio(r0, r1) ==
    /\ calc.fn = "none"
    /\ calc' = [fn |-> "get_numa_balance_ratio", args |-> <<r0, r1>>,
                out |-> numa_balance_ratio(r0, r1)]
    /\ UNCHANGED <<driver_vars, pool_vars, stats_vars>>

RatioNext ==
    \/ /\ calc.fn = "none"
       /\ \E r0 \in RatioRates, r1 \in RatioRates : GetBalanceRatio(r0, r1)
    \/ CalcReturn

InitRatio == DriverInit /\ PoolNew(DefaultConfig, TOTAL_THREADS) /\ CalcInit
    /\ HostInit /\ StatsInit

SpecRatio == InitRatio /\ [][RatioNext]_vars

\* The hash rates the workers report: none, and three rates that put the
\* ratio of two of them below, on and above the two thresholds.
Rates == {0} \cup (MaxRate - 2 .. MaxRate)

\* The calls of update_socket_hash_rate in progress are kept as a bag of
\* their positions and locals: the callers are interchangeable threads.
Moved(bag, from, to) == (bag (-) SetToBag({from})) (+) SetToBag({to})

\* update_socket_hash_rate(socket, rate), first statement: the store to the
\* counter of the socket.
UpdateStore(u, socket, rate) ==
    /\ u.pc = "idle"
    /\ BagIn(u, updaters)
    /\ stats' = IF socket = 0
                THEN [stats EXCEPT !.hash_rate_socket0 = rate]
                ELSE [stats EXCEPT !.hash_rate_socket1 = rate]
    /\ updaters' = Moved(updaters, u, [u EXCEPT !.pc = "stored"])
    /\ UNCHANGED <<driver_vars, pool_vars, calc_vars, balancer>>

\* update_socket_hash_rate: the load of hash_rate_socket0.
UpdateLoad0(u) ==
    /\ u.pc = "stored"
    /\ BagIn(u, updaters)
    /\ updaters' = Moved(updaters, u,
                         [u EXCEPT !.pc = "loaded0",
                                   !.socket0_rate = stats.hash_rate_socket0])
    /\ UNCHANGED <<driver_vars, pool_vars, calc_vars, stats, balancer>>

\* update_socket_hash_rate: the load of hash_rate_socket1 and the sum.
UpdateLoad1(u) ==
    /\ u.pc = "loaded0"
    /\ BagIn(u, updaters)
    /\ updaters' = Moved(updaters, u,
                         [u EXCEPT !.pc = "loaded1",
                                   !.socket0_rate = 0,
                                   !.total = u.socket0_rate
                                             + stats.hash_rate_socket1])
    /\ UNCHANGED <<driver_vars, pool_vars, calc_vars, stats, balancer>>

\* update_socket_hash_rate: the store of the sum to total_hash_rate.
UpdateStoreTotal(u) ==
    /\ u.pc = "loaded1"
    /\ BagIn(u, updaters)
    /\ stats' = [stats EXCEPT !.total_hash_rate = u.total]
    /\ updaters' = Moved(updaters, u, [u EXCEPT !.pc = "idle", !.total = 0])
    /\ UNCHANGED <<driver_vars, pool_vars, calc_vars, balancer>>

\* The test of the balancer with both thresholds counted as imbalance.
imbalanced_inclusive(ratio) ==
    \/ ~FracLess(FracOfInt(80), ratio)
    \/ ~FracLess(ratio, FracOfInt(120))

\* The test of the balancer: balance_ratio < 80.0 || balance_ratio > 120.0
imbalanced(ratio) ==
    \/ FracLess(ratio, FracOfInt(80))
    \/ FracLess(FracOfInt(120), ratio)

\* The balancer wakes from its sleep and get_numa_balance_ratio loads
\* hash_rate_socket0.
BalancerLoad0 ==
    /\ balancer_threads > 0
    /\ balancer.pc = "sleep"
    /\ stats.cross_socket_migrations < MaxMigrations
    /\ balancer' = [balancer EXCEPT !.pc = "loaded0",
                                    !.socket0_rate = stats.hash_rate_socket0]
    /\ UNCHANGED <<driver_vars, pool_vars, calc_vars, stats, updaters>>

\* The rest of the tick: get_numa_balance_ratio loads hash_rate_socket1 and
\* returns, the ratio is tested, and an imbalance is printed and counted.
BalancerTick ==
    /\ balancer.pc = "loaded0"
    /\ LET balance_ratio == numa_balance_ratio(balancer.socket0_rate,
                                               stats.hash_rate_socket1)
       IN  /\ balancer' = [pc |-> "sleep", socket0_rate |-> 0,
                           flagged |-> imbalanced(balance_ratio)]
           /\ stats' = IF imbalanced(balance_ratio)
                       THEN [stats EXCEPT !.cross_socket_migrations = @ + 1]
                       ELSE stats
    /\ UNCHANGED <<driver_vars, pool_vars, calc_vars, updaters>>

StatsNext ==
    \/ \E u \in BagToSet(updaters) :
          /\ u.pc = "idle"
          /\ \E socket \in 0 .. TOTAL_SOCKETS - 1, rate \in Rates :
                UpdateStore(u, socket, rate)
    \/ \E u \in BagToSet(updaters) : UpdateLoad0(u)
    \/ \E u \in BagToSet(updaters) : UpdateLoad1(u)
    \/ \E u \in BagToSet(updaters) : UpdateStoreTotal(u)
    \/ BalancerLoad0
    \/ BalancerTick

\* The pool after start_mining returned Ok on the default configuration and
\* every worker entered its loop.
InitStats ==
    /\ DriverInit
    /\ cpu_count = TOTAL_THREADS
    /\ config = DefaultConfig
    /\ should_stop = FALSE
    /\ threads = [i \in 1 .. TOTAL_SOCKETS * DefaultConfig.threads_per_socket |->
                    [SpawnedThread((i - 1) \div DefaultConfig.threads_per_socket,
                                   (i - 1) % DefaultConfig.threads_per_socket)
                        EXCEPT !.pc = "loop"]]
    /\ mining_handles = [i \in 1 .. Len(threads) |-> i]
    /\ threads_active = Len(threads)
    /\ monitor_threads = 1
    /\ balancer_threads = 1
    /\ miner_pc = "idle"
    /\ start_result = "ok"
    /\ CalcInit /\ HostInit /\ StatsInit

SpecStats == InitStats /\ [][StatsNext]_vars

C22_BalancerTickCountsImbalance ==
    [][balancer.pc = "loaded0" /\ balancer'.pc = "sleep"
       => LET ratio == IF stats.hash_rate_socket1 = 0
                       THEN <<0, 1>>
                       ELSE Frac(100 * balancer.socket0_rate,
                                 stats.hash_rate_socket1)
              below == ratio[1] < 80 * ratio[2]
              above == ratio[1] > 120 * ratio[2]
          IN  /\ balancer'.flagged <=> (below \/ above)
              /\ stats'.cross_socket_migrations =
                    stats.cross_socket_migrations
                    + (IF balancer'.flagged THEN 1 ELSE 0)
              /\ stats' = [stats EXCEPT !.cross_socket_migrations =
                                           stats'.cross_socket_migrations]
              /\ threads' = threads
              /\ threads_active' = threads_active]_vars

\* A tick that found the ratio on the upper threshold has left the counter
\* alone after an earlier tick counted an imbalance.
C22_Witness ==
    /\ balancer.pc = "sleep"
    /\ ~balancer.flagged
    /\ stats.cross_socket_migrations = 1
    /\ stats.hash_rate_socket0 * 100 = 120 * stats.hash_rate_socket1
    /\ stats.hash_rate_socket1 > 0

\* C23: when the attempt of one worker fails (its task fails or its poke
\* returns an error), the coordinator keeps running and the attempts of the
\* other workers stay in flight.
C23_WorkerFaultIsolated ==
    [][driver_pc = "handle" /\ mining_result[1].kind = "error"
       => /\ driver_pc' = "select"
          /\ mining_attempts \subseteq mining_attempts']_vars

\* C24: whatever the CPU-affinity call and the memory-policy calls return, a
\* spawned worker can enter its loop, entering adds one to threads_active,
\* and start_mining fails only on the CPU count.
C24_PinFailureNotFatal ==
    [][/\ start_result' = "err_cpu" => cpu_count' < TOTAL_THREADS
       /\ \A t \in 1 .. Len(threads) :
             threads[t].pc = "created"
             => /\ ENABLED WorkerEnter(t)
                /\ threads'[t].pc # "created"
                   => /\ threads'[t].pc = "loop"
                      /\ threads_active' = threads_active + 1]_vars

\* With all three calls failing start_mining returned Ok and a worker has
\* run iterations of its loop.
C24_Witness ==
    /\ ~host.affinity_ok /\ ~host.numa_ok /\ ~host.mempolicy_ok
    /\ start_result = "ok"
    /\ \E t \in 1 .. Len(threads) :
          /\ threads[t].pc = "loop"
          /\ threads[t].iteration_count > 0
    /\ threads_active > 0

\* C25: while no candidate is published no serf has been created and no
\* attempt is in flight, and the coordinator is at a call of
\* start_optimized_mining_attempt (the start loop or a restart after a
\* completion) only with a candidate in the slot.
C25_IdleUntilPublished ==
    /\ mining_data = <<>> => mining_attempts = {} /\ cancel_tokens = <<>>
    /\ driver_pc = "dispatch" => mining_data # <<>>
    /\ driver_pc = "handle" => mining_data # <<>>

\* The coordinator is about to restart a cancelled worker while other
\* attempts are in flight, with a candidate in the slot.
C25_Witness ==
    /\ driver_pc = "handle"
    /\ mining_result[1].kind = "poke"
    /\ mining_attempts # {}
    /\ mining_data # <<>>

\* The four candidate fields of the record x are those of the candidate c.
FieldsOf(x, header, c) ==
    /\ x.version = c.version
    /\ header = c.block_header
    /\ x.target = c.target
    /\ x.pow_len = c.pow_len

\* C26: the candidate slot always holds one whole candidate, and the version,
\* header, target and pow_len of every attempt in flight all belong to one
\* and the same candidate.
C26_NoPartialCandidate ==
    /\ mining_data # <<>>
       => \E c \in Candidates :
             FieldsOf(mining_data[1], mining_data[1].block_header, c)
    /\ \A a \in mining_attempts :
          \E c \in Candidates : FieldsOf(a.poke, a.poke.header, c)

\* After a replacement, attempts dispatched under the old and under the new
\* candidate are in flight together.
C26_Witness ==
    \E a \in mining_attempts, b \in mining_attempts :
       /\ a.poke.header # b.poke.header
       /\ FieldsOf(b.poke, b.poke.header, mining_data[1])

\* C27: a candidate that arrives while attempts are in flight cancels every
\* one of them; the completion of a cancelled attempt that reports the
\* cancellation pokes nothing to the host node, and its worker is started
\* again on the published candidate with a nonce from
\* generate_optimized_nonce.
C27_CancelledWorkerRedispatched ==
    [][/\ driver_pc = "dispatch" /\ mining_attempts # {}
          => /\ \A a \in mining_attempts' : a.status = "cancelled"
             /\ {a.serf : a \in mining_attempts'}
                   = {a.serf : a \in mining_attempts}
       /\ driver_pc = "handle" /\ mining_result[1].kind = "poke"
          => /\ mined_pokes' = mined_pokes
             /\ \E a \in mining_attempts' \ mining_attempts :
                   /\ mining_attempts' = mining_attempts \cup {a}
                   /\ a.serf = mining_result[1].serf
                   /\ a.id = mining_result[1].id
                   /\ a.status = "running"
                   /\ a.poke.nonce = [origin |-> "generated"]
                   /\ FieldsOf(a.poke, a.poke.header, mining_data[1])]_vars

\* A cancelled worker runs again on the new candidate while another attempt
\* of the old candidate, cancelled with it, has not completed yet.
C27_Witness ==
    \E a \in mining_attempts, b \in mining_attempts :
       /\ a.status = "cancelled"
       /\ ~FieldsOf(a.poke, a.poke.header, mining_data[1])
       /\ b.status = "running"
       /\ b.poke.nonce = [origin |-> "generated"]
       /\ FieldsOf(b.poke, b.poke.header, mining_data[1])

\* C28: after a non-solution result the worker is started again with a nonce
\* newly produced by generate_optimized_nonce.
C28_NonSolutionGetsGeneratedNonce ==
    [][driver_pc = "handle" /\ mining_result[1].kind = "nonsolution"
       => \E a \in mining_attempts' \ mining_attempts :
             /\ a.serf = mining_result[1].serf
             /\ a.poke.nonce = generate_optimized_nonce(a.id, 0)]_vars

\* C28 as the code has it: after a non-solution result the worker is started
\* again, on the published candidate, with the nonce the result carries in
\* its tail, and nothing is poked to the host node.
C28_NonSolutionContinuesFromTail ==
    [][driver_pc = "handle" /\ mining_result[1].kind = "nonsolution"
       => /\ mined_pokes' = mined_pokes
          /\ \E a \in mining_attempts' \ mining_attempts :
                /\ mining_attempts' = mining_attempts \cup {a}
                /\ a.serf = mining_result[1].serf
                /\ a.id = mining_result[1].id
                /\ a.status = "running"
                /\ a.poke.nonce = [origin |-> "tail"]
                /\ FieldsOf(a.poke, a.poke.header, mining_data[1])]_vars

\* A worker runs on the nonce of its last non-solution result while the other
\* still runs on the nonce generated at its start.
C28_Witness ==
    \E a \in mining_attempts, b \in mining_attempts :
       /\ a.poke.nonce = [origin |-> "tail"]
       /\ a.status = "running"
       /\ b.poke.nonce = [origin |-> "generated"]

\* C29: threads_active is the number of workers inside their loop, at most
\* the number of spawned workers and never below 0.
C29_ActiveCounterExact ==
    /\ threads_active = Cardinality({t \in Threads : threads[t].pc = "loop"})
    /\ threads_active <= Len(threads)
    /\ threads_active >= 0

\* One worker left its loop by the restart check while the pool runs and
\* another is still iterating.
C29_Witness ==
    /\ ~should_stop
    /\ threads_active = 1
    /\ \E t \in Threads, u \in Threads :
          /\ threads[t].pc = "done"
          /\ threads[u].pc = "loop"
          /\ threads[u].iteration_count > 0

\* C30: a worker that panicked in its hash step is no longer counted in
\* threads_active, and the pool has either spawned a worker in its place or
\* reported the failure to the caller of start_mining or stop_mining.
C30_PanickedWorkerHandled ==
    \A t \in Threads :
       threads[t].pc = "panicked"
       => /\ threads_active
                <= Cardinality({u \in Threads : threads[u].pc \in {"loop"}})
          /\ \/ \E u \in Threads :
                   /\ u > t
                   /\ threads[u].global_thread_id = threads[t].global_thread_id
                \/ start_result \notin {"none", "ok"}
                \/ miner_pc \notin {"idle", "dropped"}

\* C31: a worker leaves its loop either on should_stop or by the restart
\* check; it leaves by the restart check only when thread_restart_enabled is
\* set, at an iteration count that is a multiple of the check period, with
\* an elapsed time strictly greater than candidate_update_interval.
C31_ExitOnlyOnStopOrRestartCheck ==
    [][\A t \in Threads :
          threads[t].pc = "loop" /\ threads'[t].pc = "done"
          => \/ should_stop /\ threads'[t].exit = <<>>
             \/ /\ config.thread_restart_enabled
                /\ threads'[t].exit # <<>>
                /\ threads'[t].exit[1] > 0
                /\ threads'[t].exit[1] % RestartCheckPeriod = 0
                /\ threads'[t].exit[2] > config.candidate_update_interval]_vars

\* With the restart disabled a worker went through the restart check and is
\* still in its loop; it then left on should_stop.
C31_Witness ==
    /\ ~config.thread_restart_enabled
    /\ should_stop
    /\ \E t \in Threads, u \in Threads :
          /\ threads[t].pc = "loop"
          /\ threads[t].iteration_count >= RestartCheckPeriod
          /\ threads[u].pc = "done"
          /\ threads[u].exit = <<>>

(***************************************************************************)
(* Hash-rate reports of the workers of one socket (SpecReport).            *)
(***************************************************************************)

\* The report interval of the loop in seconds: if elapsed >= 5.0
ReportInterval == 5

\* (local_hash_count as f64 / elapsed) as u64
hash_rate(local_hash_count, elapsed) == local_hash_count \div elapsed

\* update_socket_hash_rate(socket, rate) run without another call in between.
update_socket_hash_rate(st, socket, rate) ==
    LET stored == CASE socket = 0 -> [st EXCEPT !.hash_rate_socket0 = rate]
                    [] socket = 1 -> [st EXCEPT !.hash_rate_socket1 = rate]
                    [] OTHER -> st
    IN  [stored EXCEPT !.total_hash_rate =
                          stored.hash_rate_socket0 + stored.hash_rate_socket1]

\* The workers of a socket reach their report one after the other, each with
\* the hashes it has counted itself in the window.
RECURSIVE ReportAll(_, _, _, _)
ReportAll(st, socket, counts, elapsed) ==
    IF counts = <<>> THEN st
    ELSE ReportAll(update_socket_hash_rate(st, socket,
                                           hash_rate(Head(counts), elapsed)),
                   socket, Tail(counts), elapsed)

\* What local_hash_count may hold at a report.
HashCounts == 0 .. MaxRate * ReportInterval

\* The local counts of the workers of one socket at their reports.
WindowCounts ==
    UNION {[1 .. n -> HashCounts] : n \in 1 .. NumUpdaters}

\* One window: every worker of the socket reports once.
ReportWindow(socket, counts, elapsed) ==
    /\ calc.fn = "none"
    /\ calc' = [fn |-> "report_window",
                args |-> <<socket, counts, elapsed>>,
                out |-> ReportAll(stats, socket, counts, elapsed)]
    /\ UNCHANGED <<driver_vars, pool_vars, stats_vars>>

ReportNext ==
    \/ /\ calc.fn = "none"
       /\ \E socket \in 0 .. TOTAL_SOCKETS - 1, counts \in WindowCounts,
             elapsed \in ReportInterval .. ReportInterval + MaxClockSkew :
             ReportWindow(socket, counts, elapsed)
    \/ CalcReturn

InitReport == InitStats

SpecReport == InitReport /\ [][ReportNext]_vars

RECURSIVE SumOf(_)
SumOf(seq) == IF seq = <<>> THEN 0 ELSE Head(seq) + SumOf(Tail(seq))

\* C32: after every worker of a socket has reported for the same window, the
\* published rate of the socket is the sum of the rates of its workers.
C32_GroupRateIsSumOfWorkers ==
    calc.fn = "report_window"
    => LET socket == calc.args[1]
           counts == calc.args[2]
           elapsed == calc.args[3]
           rates == [i \in 1 .. Len(counts) |-> counts[i] \div elapsed]
           published == IF socket = 0 THEN calc.out.hash_rate_socket0
                        ELSE calc.out.hash_rate_socket1
       IN  published = SumOf(rates)

\* x^i mod p by repeated multiplication.
RECURSIVE PowMod(_, _)
PowMod(x, i) == IF i = 0 THEN 1 % PRIME ELSE (PowMod(x, i - 1) * x) % PRIME

\* (sum over i of coeffs[i + 1] * x^i) mod p, term by term.
RECURSIVE PolySum(_, _, _)
PolySum(coeffs, x, i) ==
    IF i = Len(coeffs) THEN 0
    ELSE (((coeffs[i + 1] * PowMod(x, i)) % PRIME)
          + PolySum(coeffs, x, i + 1)) % PRIME

\* C33: for coefficients c_0 .. c_(n-1), n > 0, and a point x, all in the
\* field, poly_eval_optimized returns (sum of c_i * x^i) mod p, coeffs[0]
\* being the constant term.
C33_PolyEvalIsPolynomialValue ==
    (/\ calc.fn = "poly_eval_optimized"
     /\ calc.args[1] # <<>>
     /\ calc.args[2] \in Field
     /\ \A i \in 1 .. Len(calc.args[1]) : calc.args[1][i] \in Field)
    => calc.out = PolySum(calc.args[1], calc.args[2], 0)

\* A polynomial of three coefficients whose value at a point neither 0 nor 1
\* is none of its coefficients.
C33_Witness ==
    /\ calc.fn = "poly_eval_optimized"
    /\ Len(calc.args[1]) = 3
    /\ calc.args[2] \in Field \ {0, 1}
    /\ \A i \in 1 .. 3 : calc.args[1][i] \in Field
    /\ calc.args[1][1] # calc.args[1][3]
    /\ calc.out = PolySum(calc.args[1], calc.args[2], 0)
    /\ \A i \in 1 .. 3 : calc.out # calc.args[1][i]

\* C34: after start_mining with the default configuration the pool holds as
\* many handles as the start message reports, MINING_THREADS: 188 for the
\* dual-socket pool and 62 for the EPYC 9B14 pool.
C34_SpawnedCountIsMiningThreads ==
    calc.fn = "start_mining_default"
    => /\ Len(calc.out.handles) = calc.out.reported
       /\ calc.args[1] = "epyc7k62_dual" => Len(calc.out.handles) = 188
       /\ calc.args[1] = "epyc9b14" => Len(calc.out.handles) = 62

\* C35: whenever no call of update_socket_hash_rate is in progress,
\* total_hash_rate is hash_rate_socket0 + hash_rate_socket1.
C35_TotalIsSumWhenQuiescent ==
    (\A u \in BagToSet(updaters) : u.pc = "idle")
    => stats.total_hash_rate = stats.hash_rate_socket0 + stats.hash_rate_socket1

\* C36: should_stop, once set, is never cleared; while it is set no worker
\* performs an iteration, so the workers of a later start_mining leave their
\* loop without one; and the workers, monitors and balancers there are when
\* it is set, or started after, all end.
C36_StopFlagSticky ==
    /\ [][should_stop
          => /\ should_stop'
             /\ \A t \in Threads :
                   threads'[t].iteration_count <= threads[t].iteration_count]_vars
    /\ should_stop ~> (/\ monitor_threads = 0
                       /\ balancer_threads = 0
                       /\ \A t \in Threads : threads[t].pc = "done")

\* start_mining was called after stop_mining had returned: the pool is idle
\* with the flag set and holds handles again; the workers of the call have
\* left their loop with no iteration, its monitor and balancer have ended.
C36_Witness ==
    /\ should_stop
    /\ miner_pc = "idle"
    /\ start_result = "ok"
    /\ mining_handles # <<>>
    /\ config.performance_monitoring /\ config.cross_socket_balancing
    /\ monitor_threads = 0
    /\ balancer_threads = 0
    /\ \A i \in 1 .. Len(mining_handles) :
          /\ threads[mining_handles[i]].pc = "done"
          /\ threads[mining_handles[i]].iteration_count = 0
          /\ threads[mining_handles[i]].exit = <<>>

\* C37: reduce_128_optimized returns a canonical field element, a value
\* below PRIME, for every double word n, and so every lane written by
\* bmul_batch_avx512 is below PRIME.
C37_ReduceIsCanonical ==
    /\ calc.fn = "reduce_128_optimized" => calc.out \in Field
    /\ (calc.fn = "bmul_batch_avx512" /\ ~calc.out.panicked)
       => \A i \in 1 .. Len(calc.out.value) : calc.out.value[i] \in Field

\* The attempt a was dispatched against the candidate in the slot: it has
\* not been cancelled and carries that candidate's fields.
Fresh(a) ==
    /\ a.status = "running"
    /\ mining_data # <<>>
    /\ BuiltFrom(a.poke, mining_data[1])

\* The driver is outside the %mine handler and every attempt in the JoinSet
\* was dispatched against the candidate in the slot.
Settled ==
    /\ driver_pc \in {"select", "handle", "panicked"}
    /\ \A a \in mining_attempts : Fresh(a)

\* C38: after a candidate is replaced while attempts are in flight, and if
\* the cancelled attempts complete, either a further candidate arrives or
\* eventually every attempt in flight is one dispatched against the newest
\* candidate; and from then on, until a further candidate arrives, no attempt
\* against an older candidate is in flight.
C38_StalenessBounded ==
    /\ (driver_pc = "dispatch" /\ mining_attempts # {})
          ~> (Settled \/ driver_pc = "publish")
    /\ [][(Settled /\ driver_pc' # "publish") => Settled']_vars

\* The last attempt of a replaced candidate has been taken from the JoinSet:
\* the attempts still in flight, restarted since the replacement, all run on
\* the newest candidate.
C38_Witness ==
    /\ driver_pc = "handle"
    /\ mining_result[1].kind = "poke"
    /\ ~BuiltFrom(mining_result[1].poke, mining_data[1])
    /\ mining_attempts # {}
    /\ Settled

====
